---------------------------- MODULE Spec2Model ----------------------------
(***************************************************************************)
(* A model of the command engines of the chat bot:                         *)
(*   - the TODO list engine, todo.rs handle_command, over one user's list; *)
(*   - the bug list engine, bug.rs handle_message (further below);         *)
(*   - the handlers that load a list from the store, run an engine on it   *)
(*     and write it back: todo.rs run_command, bug.rs message.             *)
(* Text is modelled as text: responses are the strings the code formats.   *)
(* An Option<T> is a sequence of length 0 (None) or 1 (Some(v)).           *)
(***************************************************************************)
EXTENDS Integers, Sequences, FiniteSets, TLC

VARIABLES
    items,      \* TodoList.items: HashMap<String, TodoItem>, a function on the present keys
    command,    \* the TodoCommand handled last (NoCommand before any)
    response,   \* the String handle_command returned last
    lines,      \* the entries the render loop of Print walked, in output order
    todoMsg,    \* the words after "!todo" of the message dispatched last (none before any)
    addRun,     \* history: per key, the plain Add(k) commands since k was absent
    maxSeen,    \* history: per key, the highest priority ever recorded for k
    bugs,       \* BugList.items: HashMap<u32, BugItem>, a function on the present numbers
    bugMsg,     \* the !bug message handled last: the text after "!bug" and the author
    bugResult,  \* what handle_message ended with: Ok(response), Err(error) or a panic
    listed,     \* the bugs the loop of PrintAll walked, in output order
    todoDocs,   \* the "user_todos" collection: the documents, in insertion order
    bugDocs,    \* the "global_bugs" collection: the documents, in insertion order
    tasks,      \* the handler calls: per task, where it stands and its local values
    handled     \* history: per user, the TODO commands whose update was written, in order

todoVars == <<items, command, response, lines, todoMsg, addRun, maxSeen>>
bugVars == <<bugs, bugMsg, bugResult, listed>>
storeVars == <<todoDocs, bugDocs, tasks, handled>>
vars == <<items, command, response, lines, todoMsg, addRun, maxSeen, bugs, bugMsg, bugResult, listed,
          todoDocs, bugDocs, tasks, handled>>

----------------------------------------------------------------------------
(* Bounds and inputs *)

\* Add is not taken beyond this priority (the u32 counter itself is unbounded here).
MaxPriority == 2

\* The store holds at most this many bugs when a run starts.
MaxStored == 2

\* PlusOne is not taken once the list holds this many plus-ones.
MaxPlusOnes == 2

\* Item keys the user types; plain words, which {key:?} renders as "key".
Keys == {"foo", "bar", "baz"}

\* Category names the user types; they differ only in case.
Categories == {"Foo", "foo"}

\* author.name of the one user whose list this is.
UserName == "randomPoison"

None == <<>>
Some(v) == <<v>>
OptCategories == {None} \cup {Some(c) : c \in Categories}

----------------------------------------------------------------------------
(* Map helpers: HashMap insert / remove on a function *)

Put(map, k, v) == [x \in (DOMAIN map) \cup {k} |-> IF x = k THEN v ELSE map[x]]
Del(map, k) == [x \in (DOMAIN map) \ {k} |-> map[x]]
EmptyMap == [x \in {} |-> 0]

----------------------------------------------------------------------------
(* TODO list: todo.rs *)

\* #[derive(Default)] TodoItem: priority 0, done false, category None.
DefaultItem == [priority |-> 0, done |-> FALSE, category |-> None]

\* todo_list.items.entry(key).or_default()
EntryOrDefault(list, key) == IF key \in DOMAIN list THEN list[key] ELSE DefaultItem

\* {key:?} for a key without quotes, backslashes or control characters.
DebugStr(key) == "\"" \o key \o "\""

\* The value of command before any command was handled.
NoCommand == [op |-> "None"]

\* Variant of AddedItem: the priority is set to 1 instead of incremented.
AddedItemSetsOne(list, key, category) ==
    LET item == EntryOrDefault(list, key)
    IN  [priority |-> 1,
         done |-> item.done,
         category |-> IF category # None THEN category ELSE item.category]

\* Variant of AddedItem: an added item is open again.
AddedItemReopens(list, key, category) ==
    LET item == EntryOrDefault(list, key)
    IN  [priority |-> item.priority + 1,
         done |-> FALSE,
         category |-> IF category # None THEN category ELSE item.category]

\* Variant of AddedItem: the category is overwritten also when none is given.
AddedItemTakesCategory(list, key, category) ==
    LET item == EntryOrDefault(list, key)
    IN  [priority |-> item.priority + 1, done |-> item.done, category |-> category]

\* Add: the item after priority += 1 and the optional category overwrite.
AddedItem(list, key, category) ==
    LET item == EntryOrDefault(list, key)
    IN  [priority |-> item.priority + 1,
         done |-> item.done,
         category |-> IF category # None THEN category ELSE item.category]

AddItems(list, key, category) == Put(list, key, AddedItem(list, key, category))

AddResponse(list, key, category) ==
    LET item == AddedItem(list, key, category)
        key_display == IF item.category # None
                       THEN "[" \o item.category[1] \o "] " \o DebugStr(key)
                       ELSE DebugStr(key)
    IN  IF item.priority = 1
        THEN "Added item " \o key_display \o " to your list"
        ELSE "Updated item " \o key_display \o ", priority is " \o ToString(item.priority)

\* Variant of RemoveItems: the whole list is cleared.
RemoveItemsClears(list, key) == Del(EmptyMap, key)

\* Remove: items.remove(&key), whether or not the key is there.
RemoveItems(list, key) == Del(list, key)

RemoveResponse(key) == "Removed " \o DebugStr(key) \o " from your list"

\* Variant of FinishItems: a fresh done item replaces the entry.
FinishItemsFresh(list, key) == Put(list, key, [DefaultItem EXCEPT !.done = TRUE])

\* Variant of FinishItems: every entry of the list is marked done.
FinishItemsEvery(list, key) ==
    [k \in (DOMAIN list) \cup {key} |-> [EntryOrDefault(list, k) EXCEPT !.done = TRUE]]

\* Variant of FinishItems: a key that is not in the list is not entered.
FinishItemsListedOnly(list, key) ==
    IF key \in DOMAIN list THEN [list EXCEPT ![key].done = TRUE] ELSE list

\* Finish: entry(key).or_default(), then done = true.
FinishItems(list, key) ==
    Put(list, key, [EntryOrDefault(list, key) EXCEPT !.done = TRUE])

FinishResponse(key) == "Marked " \o DebugStr(key) \o " as done"


\* HashMap iteration visits the present keys once each, in an order the code
\* does not control: every enumeration of the key set is possible.
IterOrders(list) ==
    LET n == Cardinality(DOMAIN list)
    IN  {s \in [1..n -> DOMAIN list] : \A i, j \in 1..n : s[i] = s[j] => i = j}

\* Variant of Displayed: items without a category pass every filter.
DisplayedOrUncategorised(list, category, key) ==
    category = None \/ list[key].category = None \/ list[key].category = category

\* .filter(|(_, val)| category.is_none() || val.category == category)
Displayed(list, category, key) == category = None \/ list[key].category = category

FilterKeys(list, category, order) ==
    SelectSeq(order, LAMBDA k : Displayed(list, category, k))

\* sort_by_key(|(priority, _)| *priority): ascending, stable.
RECURSIVE InsertByPriority(_, _, _)
InsertByPriority(list, sorted, k) ==
    IF sorted = <<>> THEN <<k>>
    ELSE IF list[sorted[Len(sorted)]].priority <= list[k].priority
         THEN Append(sorted, k)
         ELSE Append(InsertByPriority(list, SubSeq(sorted, 1, Len(sorted) - 1), k),
                     sorted[Len(sorted)])

\* Variant of SortByPriority: the filtered keys are left as iterated.
SortByPriorityLeftAsIterated(list, ks) == ks

RECURSIVE SortByPriority(_, _)
SortByPriority(list, ks) ==
    IF ks = <<>> THEN <<>>
    ELSE InsertByPriority(list,
                          SortByPriority(list, SubSeq(ks, 1, Len(ks) - 1)),
                          ks[Len(ks)])

\* Variant of Reverse: the sorted keys are walked front to back.
ReverseForgotten(s) == s

\* .iter().rev()
Reverse(s) == [i \in 1..Len(s) |-> s[Len(s) + 1 - i]]

SortedKeys(list, category, order) == SortByPriority(list, FilterKeys(list, category, order))

\* max over all items of the list, unwrap_or_default() on an empty list.
MaxPriorityOf(list) ==
    IF DOMAIN list = {} THEN 0
    ELSE CHOOSE m \in {list[k].priority : k \in DOMAIN list} :
            \A k \in DOMAIN list : list[k].priority <= m

\* ceil(log10(n)) for n >= 1: the least w with 10^w >= n.
RECURSIVE CeilLog10From(_, _, _)
CeilLog10From(n, w, pow) == IF pow >= n THEN w ELSE CeilLog10From(n, w + 1, pow * 10)

\* The greatest power of two that is at most n, for n >= 1.
RECURSIVE PowerOfTwoIn(_, _)
PowerOfTwoIn(n, p) == IF 2 * p > n THEN p ELSE PowerOfTwoIn(n, 2 * p)

\* n as f32, for n >= 1: the nearest value with a 24-bit significand, a tie
\* going to the even significand. Below 2^24 every integer is kept.
AsF32(n) ==
    LET ulp == PowerOfTwoIn(n, 1) \div 8388608
    IN  IF ulp <= 1 THEN n
        ELSE LET below == n - (n % ulp)
                 twice == 2 * (n % ulp)
             IN  IF twice < ulp \/ (twice = ulp /\ (below \div ulp) % 2 = 0)
                 THEN below
                 ELSE below + ulp

\* f32::log10((max_priority + 1) as f32).ceil() as usize. The logarithm is
\* taken as exact on the f32 value, the most the library can offer; the sum
\* wraps at 2^32, which no list here reaches.
PriorityWidth(list) == CeilLog10From(AsF32(MaxPriorityOf(list) + 1), 0, 1)

\* {text: >width$}: right-aligned, padded with spaces, never cut.
RECURSIVE PadLeft(_, _)
PadLeft(text, width) == IF Len(text) >= width THEN text ELSE PadLeft(" " \o text, width)

\* One entry of the render loop.
PrintLine(list, category, key) ==
    LET item == list[key]
    IN  [priority |-> item.priority,
         check_mark |-> IF item.done THEN "X" ELSE " ",
         category_str |-> IF category # None \/ item.category = None
                          THEN ""
                          ELSE " [" \o item.category[1] \o "]",
         key |-> key]

PrintLines(list, category, order) ==
    LET ks == Reverse(SortedKeys(list, category, order))
    IN  [i \in 1..Len(ks) |-> PrintLine(list, category, ks[i])]

\* writeln!("({priority: >priority_width$}) [{check_mark}]{category_str} {key}")
RenderLine(line, width) ==
    "(" \o PadLeft(ToString(line.priority), width) \o ") [" \o line.check_mark \o "]"
        \o line.category_str \o " " \o line.key \o "\n"

RECURSIVE RenderLines(_, _)
RenderLines(ls, width) ==
    IF ls = <<>> THEN "" ELSE RenderLine(Head(ls), width) \o RenderLines(Tail(ls), width)

\* The code fence line around the list. A TLA+ string cannot hold the backquote
\* character, so the three backquotes are written as three apostrophes.
Fence == "'''\n"

PrintResponse(list, category, order) ==
    (IF category # None
     THEN "TODO list for " \o UserName \o " in category [" \o category[1] \o "]:\n"
     ELSE "TODO list for " \o UserName \o ":\n")
    \o Fence
    \o RenderLines(PrintLines(list, category, order), PriorityWidth(list))
    \o Fence

----------------------------------------------------------------------------
(* handle_command: one action per arm of the match *)

TodoAdd(key, category) ==
    /\ EntryOrDefault(items, key).priority < MaxPriority
    /\ items' = AddItems(items, key, category)
    /\ response' = AddResponse(items, key, category)
    /\ lines' = <<>>
    /\ command' = [op |-> "Add", key |-> key, category |-> category]

TodoRemove(key) ==
    /\ items' = RemoveItems(items, key)
    /\ response' = RemoveResponse(key)
    /\ lines' = <<>>
    /\ command' = [op |-> "Remove", key |-> key]

TodoFinish(key) ==
    /\ items' = FinishItems(items, key)
    /\ response' = FinishResponse(key)
    /\ lines' = <<>>
    /\ command' = [op |-> "Finish", key |-> key]

TodoPrint(category) ==
    \E order \in IterOrders(items) :
        /\ items' = items
        /\ response' = PrintResponse(items, category, order)
        /\ lines' = PrintLines(items, category, order)
        /\ command' = [op |-> "Print", category |-> category]

----------------------------------------------------------------------------
(* The !todo command and its subcommands: the poise commands of todo.rs. A *)
(* message is the sequence of the words after "!todo"; the framework runs *)
(* the subcommand the first word names, or else todo itself on all words, *)
(* and fills the parameters of the function from the words in order. *)

\* subcommands("show", "add", "remove", "done")
Subcommands == {"show", "add", "remove", "done"}

\* The !todo messages the user sends; each has as many words as the
\* parameters of the function it reaches can take.
TodoMessages ==
    {<<>>, <<"foo">>, <<"foo", "Foo">>,
     <<"show">>, <<"show", "foo">>,
     <<"add", "foo">>, <<"add", "bar", "Foo">>,
     <<"remove", "foo">>, <<"rm", "foo">>, <<"delete", "foo">>,
     <<"remove", "rm">>, <<"remove", "delete">>,
     <<"done", "foo">>}

\* An Option<String> parameter: the n-th word, when there is one.
OptArg(args, n) == IF Len(args) >= n THEN Some(args[n]) ELSE None

\* todo(ctx, key: Option<String>, category: Option<String>)
todo(args) ==
    IF OptArg(args, 1) # None
    THEN [op |-> "Add", key |-> args[1], category |-> OptArg(args, 2)]
    ELSE [op |-> "Print", category |-> OptArg(args, 2)]

\* show(ctx, category: Option<String>)
show(args) == [op |-> "Print", category |-> OptArg(args, 1)]

\* add(ctx, key: String, category: Option<String>)
add(args) == [op |-> "Add", key |-> args[1], category |-> OptArg(args, 2)]

\* remove(ctx, key: String)
remove(args) == [op |-> "Remove", key |-> args[1]]

\* done(ctx, key: String)
done(args) == [op |-> "Finish", key |-> args[1]]

\* The TodoCommand a message ends in: a first word that names a subcommand
\* selects it and the words after it are its arguments; any other message is
\* for todo itself, all words being arguments.
Dispatch(words) ==
    IF words # <<>> /\ words[1] \in Subcommands
    THEN CASE words[1] = "show" -> show(Tail(words))
           [] words[1] = "add" -> add(Tail(words))
           [] words[1] = "remove" -> remove(Tail(words))
           [] words[1] = "done" -> done(Tail(words))
    ELSE todo(words)

----------------------------------------------------------------------------
(* Text of a !bug message: a sequence of characters *)

\* char::is_whitespace, over the characters the messages use.
IsWhitespace(c) == c \in {" ", "\t", "\n"}

\* The String of a character sequence.
RECURSIVE Str(_)
Str(s) == IF s = <<>> THEN "" ELSE Head(s) \o Str(Tail(s))

RECURSIVE TrimStart(_)
TrimStart(s) == IF s # <<>> /\ IsWhitespace(Head(s)) THEN TrimStart(Tail(s)) ELSE s

RECURSIVE TrimEnd(_)
TrimEnd(s) ==
    IF s # <<>> /\ IsWhitespace(s[Len(s)]) THEN TrimEnd(SubSeq(s, 1, Len(s) - 1)) ELSE s

\* str::trim
Trim(s) == TrimEnd(TrimStart(s))

\* str::split_once(char::is_whitespace): None, or Some((before, after)) around
\* the first whitespace character.
SplitOnce(s) ==
    LET at == {i \in 1..Len(s) : IsWhitespace(s[i])}
    IN  IF at = {} THEN None
        ELSE LET i == CHOOSE i \in at : \A j \in at : i <= j
             IN  Some(<<SubSeq(s, 1, i - 1), SubSeq(s, i + 1, Len(s))>>)

\* str::trim_matches('"'): every leading and trailing quote is dropped.
RECURSIVE TrimQuotes(_)
TrimQuotes(s) ==
    IF s # <<>> /\ Head(s) = "\"" THEN TrimQuotes(Tail(s))
    ELSE IF s # <<>> /\ s[Len(s)] = "\"" THEN TrimQuotes(SubSeq(s, 1, Len(s) - 1))
    ELSE s

Digits == {"0", "1", "2", "3", "4", "5", "6", "7", "8", "9"}

DigitValue(c) ==
    CASE c = "0" -> 0 [] c = "1" -> 1 [] c = "2" -> 2 [] c = "3" -> 3 [] c = "4" -> 4
      [] c = "5" -> 5 [] c = "6" -> 6 [] c = "7" -> 7 [] c = "8" -> 8 [] c = "9" -> 9

RECURSIVE DecimalValue(_)
DecimalValue(s) ==
    IF s = <<>> THEN 0
    ELSE DecimalValue(SubSeq(s, 1, Len(s) - 1)) * 10 + DigitValue(s[Len(s)])

\* str::parse::<u32>: an optional '+', then one or more decimal digits, nothing
\* else; None stands for the ParseIntError. Texts of up to 9 digits are read:
\* each of them fits u32.
ParseU32(s) ==
    LET digits == IF s # <<>> /\ Head(s) = "+" THEN Tail(s) ELSE s
    IN  IF digits # <<>> /\ Len(digits) <= 9
           /\ \A i \in 1..Len(digits) : digits[i] \in Digits
        THEN Some(DecimalValue(digits))
        ELSE None

\* normalize_bug_number: key.trim().parse(); None stands for the Err.
normalize_bug_number(key) == ParseU32(Trim(key))

----------------------------------------------------------------------------
(* BugReportParser: the pest grammar of bug.rs, a PEG read from the start of *)
(* the input. A position is the index of the next character; -1 is failure. *)

StartsWith(s, i, pat) ==
    /\ i + Len(pat) - 1 <= Len(s)
    /\ \A j \in 1..Len(pat) : s[i + j - 1] = pat[j]

\* (!pat ~ ANY)*: the position where pat next starts, or the end of the input.
RECURSIVE SkipUntil(_, _, _)
SkipUntil(s, i, pat) ==
    IF i > Len(s) \/ StartsWith(s, i, pat) THEN i ELSE SkipUntil(s, i + 1, pat)

TRIPLE_QUOTE == <<"\"", "\"", "\"">>
DOUBLE_QUOTE == <<"\"">>
WS == <<" ">>

\* quote ~ (!quote ~ ANY)* ~ quote
QuotedString(s, i, quote) ==
    IF ~StartsWith(s, i, quote) THEN -1
    ELSE LET j == SkipUntil(s, i + Len(quote), quote)
         IN  IF StartsWith(s, j, quote) THEN j + Len(quote) ELSE -1

triple_quoted_string(s, i) == QuotedString(s, i, TRIPLE_QUOTE)
double_quoted_string(s, i) == QuotedString(s, i, DOUBLE_QUOTE)

\* string_literal = @{ triple_quoted_string | double_quoted_string | (!WS ~ ANY)* }
\* An ordered choice: the first alternative that matches is taken for good.
string_literal(s, i) ==
    IF triple_quoted_string(s, i) # -1 THEN triple_quoted_string(s, i)
    ELSE IF double_quoted_string(s, i) # -1 THEN double_quoted_string(s, i)
    ELSE SkipUntil(s, i, WS)

MatchWS(s, i) == IF StartsWith(s, i, WS) THEN i + 1 ELSE -1

\* string_literal (~ WS ~ string_literal)*, n literals in all, from position i:
\* where each literal starts and ends, or <<>> when the sequence does not match.
RECURSIVE LiteralsFrom(_, _, _)
LiteralsFrom(s, i, n) ==
    LET end == string_literal(s, i)
    IN  IF n = 1 THEN <<[from |-> i, to |-> end - 1]>>
        ELSE IF MatchWS(s, end) = -1 THEN <<>>
        ELSE LET more == LiteralsFrom(s, end + 1, n - 1)
             IN  IF more = <<>> THEN <<>> ELSE <<[from |-> i, to |-> end - 1]>> \o more

\* bug_report = { string_literal ~ WS ~ string_literal ~ WS ~ string_literal }
\* The rule has no end-of-input anchor: text after the third literal is left
\* unread.
bug_report(s) == LiteralsFrom(s, 1, 3)

\* The pairs of a match of bug_report. bug_report is a normal rule, so the top
\* level holds one pair, the bug_report pair spanning the whole match; the three
\* string_literal pairs are its inner pairs.
PairsOf(input, ends) ==
    <<[rule |-> "bug_report",
       str |-> SubSeq(input, 1, ends[3].to),
       inner |-> [i \in 1..3 |->
                     [rule |-> "string_literal",
                      str |-> SubSeq(input, ends[i].from, ends[i].to)]]]>>

\* BugReportParser::parse(Rule::bug_report, input): Err (None), or Ok(pairs) with
\* the pairs of the top level.
BugReportParse(input) ==
    IF bug_report(input) = <<>> THEN None ELSE Some(PairsOf(input, bug_report(input)))

----------------------------------------------------------------------------
(* Bug list: bug.rs *)

\* msg.author.id of the users who write.
Users == {101, 102}

\* The messages the users send:
\*   !bug                   PrintAll
\*   !bug show 1            Print of bug 1
\*   !bug print 2           Print of bug 2
\*   !bug display 9         Print of a number that is in no list
\*   !bug show x            Print of a text that is no number
\*   !bug +1 1              PlusOne of bug 1
\*   !bug +1  2             PlusOne of bug 2, two spaces: the rest is " 2"
\*   !bug +1 9              PlusOne of a number that is in no list
\*   !bug +1 x              PlusOne of a text that is no number
\*   !bug report a b c      Report, three bare fields
\*   !bug add """N""" "S" D Report, a triple-quoted, a quoted and a bare field
\*   !bug report a b        Report, two fields
\*   !bug show              no whitespace after the trim: Report of the text show
\*   !bug foo bar baz       an unknown first word: Help
\*   !bug remove 1          remove is no command word: Help
\*   !bug delete 2          delete is no command word: Help
\*   !bug rm 1              rm is no command word: Help
\*   !bug   (spaces only)   PrintAll
\*   !bug print             as !bug show
\*   !bug display           as !bug show
\*   !bug report a b c d    Report, four fields
\*   !bug report "a" "b"    Report, two quoted fields
\*   !bug report "a b c     Report, a quote that is never closed
\*   !bug report "a" "b" "c"       Report, three quoted fields
\*   !bug report """a""" "b" c     Report, as the add message with other values
BugTexts ==
    {<<>>,
     <<" ", "s", "h", "o", "w", " ", "1">>,
     <<" ", "p", "r", "i", "n", "t", " ", "2">>,
     <<" ", "d", "i", "s", "p", "l", "a", "y", " ", "9">>,
     <<" ", "s", "h", "o", "w", " ", "x">>,
     <<" ", "+", "1", " ", "1">>,
     <<" ", "+", "1", " ", " ", "2">>,
     <<" ", "+", "1", " ", "9">>,
     <<" ", "+", "1", " ", "x">>,
     <<" ", "r", "e", "p", "o", "r", "t", " ", "a", " ", "b", " ", "c">>,
     <<" ", "a", "d", "d", " ", "\"", "\"", "\"", "N", "\"", "\"", "\"", " ", "\"", "S", "\"", " ", "D">>,
     <<" ", "r", "e", "p", "o", "r", "t", " ", "a", " ", "b">>,
     <<" ", "s", "h", "o", "w">>,
     <<" ", "f", "o", "o", " ", "b", "a", "r", " ", "b", "a", "z">>,
     <<" ", "r", "e", "m", "o", "v", "e", " ", "1">>,
     <<" ", "d", "e", "l", "e", "t", "e", " ", "2">>,
     <<" ", "r", "m", " ", "1">>,
     <<" ", " ", " ">>,
     <<" ", "p", "r", "i", "n", "t">>,
     <<" ", "d", "i", "s", "p", "l", "a", "y">>,
     <<" ", "r", "e", "p", "o", "r", "t", " ", "a", " ", "b", " ", "c", " ", "d">>,
     <<" ", "r", "e", "p", "o", "r", "t", " ", "\"", "a", "\"", " ", "\"", "b", "\"">>,
     <<" ", "r", "e", "p", "o", "r", "t", " ", "\"", "a", " ", "b", " ", "c">>,
     <<" ", "r", "e", "p", "o", "r", "t", " ", "\"", "a", "\"", " ", "\"", "b", "\"", " ", "\"", "c", "\"">>,
     <<" ", "r", "e", "p", "o", "r", "t", " ", "\"", "\"", "\"", "a", "\"", "\"", "\"", " ", "\"", "b", "\"", " ", "c">>}

\* impl Default for BugStatus: Open; #[derive(Default)] BugItem.
DefaultBugItem ==
    [number |-> 0, priority |-> 0, status |-> "Open", labels |-> <<>>,
     name |-> "", summary |-> "", details |-> "", reporter |-> 0, plus_ones |-> <<>>]

\* What handle_message ends with: Ok(response), Err(error) whose text is the
\* outermost context, or a panic with its message.
Ok(text) == [kind |-> "Ok", text |-> text]
Err(text) == [kind |-> "Err", text |-> text]
Panic(text) == [kind |-> "Panic", text |-> text]

\* The command and the rest of the text, from the text after "!bug".
Classify(content) ==
    LET body == Trim(content)
        split == SplitOnce(body)
        word == IF split = None THEN "" ELSE Str(split[1][1])
    IN  IF split # None /\ word \in {"", "show", "print", "display"}
            THEN [command |-> "Print", rest |-> split[1][2]]
        ELSE IF split # None /\ word \in {"report", "add"}
            THEN [command |-> "Report", rest |-> split[1][2]]
        ELSE IF split # None /\ word = "+1"
            THEN [command |-> "PlusOne", rest |-> split[1][2]]
        ELSE IF split = None /\ body = <<>>
            THEN [command |-> "PrintAll", rest |-> body]
        ELSE IF split = None
            THEN [command |-> "Report", rest |-> body]
        ELSE [command |-> "Help", rest |-> body]

\* Pairs::next(), called for the n-th time on the pairs parse returned.
NextPair(pairs, n) == IF n <= Len(pairs) THEN Some(pairs[n]) ELSE None

\* bug_list.items.len() as u32 + 1
NewBugNumber(list) == Cardinality(DOMAIN list) + 1

\* The Report arm: the list after it and what it ends with.
ReportArm(list, rest, user_id) ==
    LET parsed_report == BugReportParse(Trim(rest))
    IN  IF parsed_report = None
        THEN [items |-> list, result |-> Err("couldn't parse a user-submitted bug report")]
        ELSE IF \E n \in 1..3 : NextPair(parsed_report[1], n) = None
        THEN [items |-> list, result |-> Panic("parser says this exists")]
        ELSE LET name == Str(TrimQuotes(NextPair(parsed_report[1], 1)[1].str))
                 summary == Str(TrimQuotes(NextPair(parsed_report[1], 2)[1].str))
                 detail == Str(TrimQuotes(NextPair(parsed_report[1], 3)[1].str))
                 new_bug == [DefaultBugItem EXCEPT !.number = NewBugNumber(list),
                                                   !.name = name,
                                                   !.summary = summary,
                                                   !.details = detail,
                                                   !.reporter = user_id]
             IN  [items |-> Put(list, new_bug.number, new_bug),
                  result |-> Ok("Added bug #" \o ToString(new_bug.number) \o " \""
                                 \o name \o "\" to the list")]

\* Variant of NotFound: a number that is not in the list is reported as an error.
NotFoundIsError(rest) ==
    Err("I couldn't find a bug with the number " \o Str(rest) \o " in the global list.")

\* The answer of Print and PlusOne for a number that is not in the list.
NotFound(rest) ==
    Ok("I couldn't find a bug with the number " \o Str(rest) \o " in the global list.")

BadNumber(rest) ==
    Err("couldn't parse bug number from user input \"" \o Str(rest) \o "\"")

\* labels.join(", ")
RECURSIVE Join(_, _)
Join(texts, sep) ==
    IF texts = <<>> THEN ""
    ELSE IF Len(texts) = 1 THEN texts[1]
    ELSE texts[1] \o sep \o Join(Tail(texts), sep)

\* The Print arm.
\* Variant of PrintArm: the entry got by get_mut is written to, the user is
\* pushed to its plus_ones.
PrintArmPushes(list, rest, user_id) ==
    LET bug_number == normalize_bug_number(rest)
    IN  IF bug_number = None THEN [items |-> list, result |-> BadNumber(rest)]
        ELSE IF bug_number[1] \in DOMAIN list
        THEN [items |-> [list EXCEPT ![bug_number[1]].plus_ones = Append(@, user_id)],
              result |-> Ok("#" \o Str(rest) \o " " \o list[bug_number[1]].name \o "\n")]
        ELSE [items |-> list, result |-> NotFound(rest)]

PrintArm(list, rest, user_id) ==
    LET bug_number == normalize_bug_number(rest)
    IN  IF bug_number = None THEN [items |-> list, result |-> BadNumber(rest)]
        ELSE IF bug_number[1] \in DOMAIN list
        THEN LET entry == list[bug_number[1]]
             IN  [items |-> list,
                  result |-> Ok("#" \o Str(rest) \o " " \o entry.name \o "\n"
                                 \o entry.summary \o ":\n"
                                 \o entry.details \o ":\n"
                                 \o "Priority: " \o ToString(entry.priority) \o "\n"
                                 \o "Status: " \o entry.status \o "\n"
                                 \o "Labels: " \o Join(entry.labels, ", ") \o "\n"
                                 \o "Reporter: " \o ToString(entry.reporter) \o "\n"
                                 \o "Plus Ones: " \o ToString(Len(entry.plus_ones)) \o "\n")]
        ELSE [items |-> list, result |-> NotFound(rest)]

\* Variant of PlusOneArm: a user already in plus_ones is not appended again.
PlusOneArmOncePerUser(list, rest, user_id) ==
    LET bug_number == normalize_bug_number(rest)
    IN  IF bug_number = None THEN [items |-> list, result |-> BadNumber(rest)]
        ELSE IF bug_number[1] \in DOMAIN list
        THEN LET entry == list[bug_number[1]]
                 seen == \E i \in 1..Len(entry.plus_ones) : entry.plus_ones[i] = user_id
                 plus_ones == IF seen THEN entry.plus_ones
                              ELSE Append(entry.plus_ones, user_id)
             IN  [items |-> [list EXCEPT ![bug_number[1]].plus_ones = plus_ones],
                  result |-> Ok("I'm sorry to hear that you're also experiencing this issue.\nAt least you've got "
                                 \o ToString(Len(plus_ones) - 1) \o " other(s) for company.")]
        ELSE [items |-> list, result |-> NotFound(rest)]

\* Variant of PlusOneArm: the entry is looked up with entry().or_default(), as
\* the TODO engine does.
PlusOneArmOrDefault(list, rest, user_id) ==
    LET bug_number == normalize_bug_number(rest)
    IN  IF bug_number = None THEN [items |-> list, result |-> BadNumber(rest)]
        ELSE LET entry == IF bug_number[1] \in DOMAIN list
                          THEN list[bug_number[1]] ELSE DefaultBugItem
                 plus_ones == Append(entry.plus_ones, user_id)
             IN  [items |-> Put(list, bug_number[1], [entry EXCEPT !.plus_ones = plus_ones]),
                  result |-> Ok("I'm sorry to hear that you're also experiencing this issue.\nAt least you've got "
                                 \o ToString(Len(plus_ones) - 1) \o " other(s) for company.")]

\* The PlusOne arm.
PlusOneArm(list, rest, user_id) ==
    LET bug_number == normalize_bug_number(rest)
    IN  IF bug_number = None THEN [items |-> list, result |-> BadNumber(rest)]
        ELSE IF bug_number[1] \in DOMAIN list
        THEN LET plus_ones == Append(list[bug_number[1]].plus_ones, user_id)
             IN  [items |-> [list EXCEPT ![bug_number[1]].plus_ones = plus_ones],
                  result |-> Ok("I'm sorry to hear that you're also experiencing this issue.\nAt least you've got "
                                 \o ToString(Len(plus_ones) - 1) \o " other(s) for company.")]
        ELSE [items |-> list, result |-> NotFound(rest)]

\* Variant of UnclosedBugs: the status filter is left out.
UnclosedBugsAll(list, order) == order

\* The bugs the PrintAll arm lists: .values().filter(status != Closed), in the
\* order the HashMap iterates.
UnclosedBugs(list, order) == SelectSeq(order, LAMBDA n : list[n].status # "Closed")

PrintAllEntry(bug) ==
    "#" \o ToString(bug.number) \o " " \o bug.name \o "\t" \o bug.summary \o "\t("
        \o ToString(Len(bug.plus_ones)) \o " +1s)\t[" \o Join(bug.labels, ", ") \o "]"

RECURSIVE PrintAllText(_, _)
PrintAllText(list, numbers) ==
    IF numbers = <<>> THEN ""
    ELSE PrintAllEntry(list[Head(numbers)]) \o PrintAllText(list, Tail(numbers))

----------------------------------------------------------------------------
(* handle_message: one action per arm of the match on the BugCommand *)

\* The value of bugMsg and of bugResult before any message was handled.
NoMessage == [content |-> <<>>, author |-> 0]
NoResult == [kind |-> "None", text |-> ""]

RECURSIVE PlusOnesIn(_, _)
PlusOnesIn(list, numbers) ==
    IF numbers = {} THEN 0
    ELSE LET n == CHOOSE n \in numbers : TRUE
         IN  Len(list[n].plus_ones) + PlusOnesIn(list, numbers \ {n})

BugReport(content, user_id) ==
    /\ Classify(content).command = "Report"
    /\ \E out \in {ReportArm(bugs, Classify(content).rest, user_id)} :
           /\ bugs' = out.items
           /\ bugResult' = out.result
    /\ listed' = <<>>
    /\ bugMsg' = [content |-> content, author |-> user_id]

BugPrint(content, user_id) ==
    /\ Classify(content).command = "Print"
    /\ \E out \in {PrintArm(bugs, Classify(content).rest, user_id)} :
           /\ bugs' = out.items
           /\ bugResult' = out.result
    /\ listed' = <<>>
    /\ bugMsg' = [content |-> content, author |-> user_id]

BugPlusOne(content, user_id) ==
    /\ Classify(content).command = "PlusOne"
    /\ \E out \in {PlusOneArm(bugs, Classify(content).rest, user_id)} :
           /\ out.items # bugs => PlusOnesIn(bugs, DOMAIN bugs) < MaxPlusOnes
           /\ bugs' = out.items
           /\ bugResult' = out.result
    /\ listed' = <<>>
    /\ bugMsg' = [content |-> content, author |-> user_id]

BugPrintAll(content, user_id) ==
    /\ Classify(content).command = "PrintAll"
    /\ \E order \in IterOrders(bugs) :
           /\ listed' = UnclosedBugs(bugs, order)
           /\ bugResult' = Ok(PrintAllText(bugs, UnclosedBugs(bugs, order)))
    /\ bugs' = bugs
    /\ bugMsg' = [content |-> content, author |-> user_id]

\* Variant of BugHelp: the Remove arm the code holds as a comment is active for
\* the words remove, rm and delete.
BugHelpRemoves(content, user_id) ==
    /\ Classify(content).command = "Help"
    /\ \E split \in {SplitOnce(Trim(content))} :
           IF /\ Str(split[1][1]) \in {"remove", "rm", "delete"}
              /\ normalize_bug_number(split[1][2]) # None
           THEN /\ bugs' = Del(bugs, normalize_bug_number(split[1][2])[1])
                /\ bugResult' = Ok("Removed bug #" \o Str(split[1][2]) \o " from the list")
           ELSE /\ bugs' = bugs
                /\ bugResult' = Panic("not yet implemented: surely I'm reinventing the wheel here")
    /\ listed' = <<>>
    /\ bugMsg' = [content |-> content, author |-> user_id]

\* todo!("surely I'm reinventing the wheel here")
BugHelp(content, user_id) ==
    /\ Classify(content).command = "Help"
    /\ bugResult' = Panic("not yet implemented: surely I'm reinventing the wheel here")
    /\ bugs' = bugs
    /\ listed' = <<>>
    /\ bugMsg' = [content |-> content, author |-> user_id]

\* A bug as the store holds it: numbered by its key, as a Report numbers it.
StoredBug(number, status) ==
    [DefaultBugItem EXCEPT !.number = number,
                           !.status = status,
                           !.name = "bug" \o ToString(number),
                           !.summary = "S",
                           !.details = "D",
                           !.reporter = IF number % 2 = 1 THEN 101 ELSE 102]

\* The lists message() hands to handle_message: BugList::new() on first use, or
\* the document the store holds, with up to MaxStored bugs.
StoredLists ==
    UNION {{[i \in 1..n |-> StoredBug(i, status[i])] :
               status \in [1..n -> {"Open", "Closed"}]} : n \in 0..MaxStored}

BugInit ==
    /\ bugs \in StoredLists
    /\ bugMsg = NoMessage
    /\ bugResult = NoResult
    /\ listed = <<>>

\* No bug message is handled: the bug list stays as BugList::new() made it.
BugIdle ==
    /\ bugs = EmptyMap
    /\ bugMsg = NoMessage
    /\ bugResult = NoResult
    /\ listed = <<>>

----------------------------------------------------------------------------
(* The store and the handlers around the engines: todo.rs run_command, *)
(* bug.rs message and the error branch of lib.rs Bot::message. A collection *)
(* is the sequence of its documents; a document is a record of its fields. *)

\* Handler calls that can be in flight at the same time.
MaxTasks == 2

\* No !bug message is taken up once the collection holds this many documents.
MaxDocs == 3

\* No TODO command is taken up once this many of them were written.
MaxHandled == 3

Tasks == 1..MaxTasks

\* The TODO commands the users give to run_command.
StoreCommands ==
    {[op |-> "Add", key |-> "foo", category |-> None],
     [op |-> "Add", key |-> "bar", category |-> None],
     [op |-> "Remove", key |-> "foo"],
     [op |-> "Finish", key |-> "bar"]}

\* The !bug messages the users send to message: PrintAll, a Print and a
\* PlusOne of a text that is no number, a PlusOne of number 1, a Report of two
\* fields, a Report of three fields and an unknown command word.
StoreBugTexts ==
    {<<>>,
     <<" ", "s", "h", "o", "w", " ", "x">>,
     <<" ", "+", "1", " ", "x">>,
     <<" ", "+", "1", " ", "1">>,
     <<" ", "r", "e", "p", "o", "r", "t", " ", "a", " ", "b">>,
     <<" ", "r", "e", "p", "o", "r", "t", " ", "a", " ", "b", " ", "c">>,
     <<" ", "f", "o", "o", " ", "b", "a", "r", " ", "b", "a", "z">>}

\* A TodoList as a document: the fields the struct has, user_id and items.
\* The id is taken to be stored in the form the query gives it.
TodoDoc(user_id, list) == [user_id |-> user_id, items |-> list]

\* A BugList as a document: the struct has the one field items.
BugDoc(list) == [items |-> list]

\* doc! { "user_id": user_id.to_string() }
UserQuery(user_id) == [user_id |-> user_id]

\* A document matches a query when it has every field of the query with the
\* value of the query.
Matches(doc, query) ==
    \A f \in DOMAIN query : f \in DOMAIN doc /\ doc[f] = query[f]

\* The positions of the documents a query matches.
Matching(docs, query) == {i \in 1..Len(docs) : Matches(docs[i], query)}

FirstOf(positions) == CHOOSE i \in positions : \A j \in positions : i <= j

\* collection.find_one(query): None, or Some(document), the first match.
find_one(docs, query) ==
    IF Matching(docs, query) = {} THEN None
    ELSE Some(docs[FirstOf(Matching(docs, query))])

\* collection.insert_one(document)
insert_one(docs, doc) == Append(docs, doc)

\* collection.update_one(query, { "$set": fields }) without upsert: the first
\* match gets the fields; nothing is written when no document matches.
update_one(docs, query, fields) ==
    IF Matching(docs, query) = {} THEN docs
    ELSE LET i == FirstOf(Matching(docs, query))
         IN  [docs EXCEPT ![i] =
                 [f \in (DOMAIN docs[i]) \cup (DOMAIN fields) |->
                     IF f \in DOMAIN fields THEN fields[f] ELSE docs[i][f]]]

\* handle_command as a function of the list and the command: the lists and
\* responses it can end with (Print depends on the iteration order).
TodoOutcomes(list, cmd) ==
    CASE cmd.op = "Add" ->
             {[items |-> AddItems(list, cmd.key, cmd.category),
               response |-> AddResponse(list, cmd.key, cmd.category)]}
      [] cmd.op = "Remove" ->
             {[items |-> RemoveItems(list, cmd.key), response |-> RemoveResponse(cmd.key)]}
      [] cmd.op = "Finish" ->
             {[items |-> FinishItems(list, cmd.key), response |-> FinishResponse(cmd.key)]}
      [] cmd.op = "Print" ->
             {[items |-> list, response |-> PrintResponse(list, cmd.category, order)] :
                  order \in IterOrders(list)}

\* handle_message as a function of the list and the message: the lists and
\* results it can end with (PrintAll depends on the iteration order).
BugOutcomes(list, content, user_id) ==
    LET c == Classify(content)
    IN  CASE c.command = "Report" -> {ReportArm(list, c.rest, user_id)}
          [] c.command = "Print" -> {PrintArm(list, c.rest, user_id)}
          [] c.command = "PlusOne" -> {PlusOneArm(list, c.rest, user_id)}
          [] c.command = "PrintAll" ->
                 {[items |-> list,
                   result |-> Ok(PrintAllText(list, UnclosedBugs(list, order)))] :
                      order \in IterOrders(list)}
          [] c.command = "Help" ->
                 {[items |-> list,
                   result |-> Panic("not yet implemented: surely I'm reinventing the wheel here")]}

\* Bot::message, the Err branch: the text sent to the channel for an error.
ErrorMessage(e) == "Error occurred:\n'''\n" \o e \o "\n'''"

\* A handler call that has not started, or has ended.
IdleTask ==
    [pc |-> "idle", engine |-> "none", user |-> 0, input |-> NoCommand,
     list |-> EmptyMap, ended |-> "None", sent |-> None]

\* The find_one of a handler: the match arm the call continues in and the list
\* it holds then.
Loaded(engine, user_id, input, doc) ==
    [pc |-> IF doc = None THEN "insert" ELSE "handle",
     engine |-> engine, user |-> user_id, input |-> input,
     list |-> IF doc = None THEN EmptyMap ELSE doc[1].items,
     ended |-> "None", sent |-> None]

\* The number of TODO commands written so far, over the users of the set.
RECURSIVE HandledBy(_)
HandledBy(users) ==
    IF users = {} THEN 0
    ELSE LET u == CHOOSE u \in users : TRUE
         IN  Len(handled[u]) + HandledBy(users \ {u})

\* run_command, up to the first await: the find_one for the author's list.
TodoFind(t, user_id, cmd) ==
    /\ tasks[t].pc = "idle"
    /\ HandledBy(Users) < MaxHandled
    /\ \E doc \in {find_one(todoDocs, UserQuery(user_id))} :
           /\ (cmd.op = "Add" /\ doc # None) =>
                  EntryOrDefault(doc[1].items, cmd.key).priority < MaxPriority
           /\ tasks' = [tasks EXCEPT ![t] = Loaded("todo", user_id, cmd, doc)]
    /\ UNCHANGED <<todoDocs, bugDocs, handled>>

\* run_command, the None arm: insert_one(TodoList::new(user_id)).
TodoInsert(t) ==
    /\ tasks[t].pc = "insert"
    /\ tasks[t].engine = "todo"
    /\ todoDocs' = insert_one(todoDocs, TodoDoc(tasks[t].user, EmptyMap))
    /\ tasks' = [tasks EXCEPT ![t].pc = "handle"]
    /\ UNCHANGED <<bugDocs, handled>>

\* run_command, on to the last await: handle_command on the loaded list and
\* update_one with the items; the response is still to be said.
TodoUpdate(t) ==
    /\ tasks[t].pc = "handle"
    /\ tasks[t].engine = "todo"
    /\ \E out \in TodoOutcomes(tasks[t].list, tasks[t].input) :
           /\ todoDocs' = update_one(todoDocs, UserQuery(tasks[t].user),
                                     [items |-> out.items])
           /\ tasks' = [tasks EXCEPT ![t].pc = "say",
                                     ![t].list = out.items,
                                     ![t].ended = "Ok",
                                     ![t].sent = Some(out.response)]
    /\ handled' = [handled EXCEPT ![tasks[t].user] = Append(@, tasks[t].input)]
    /\ UNCHANGED bugDocs

\* run_command, the end: channel_id.say(response); the call is over.
TodoSay(t) ==
    /\ tasks[t].pc = "say"
    /\ tasks[t].engine = "todo"
    /\ tasks' = [tasks EXCEPT ![t] = IdleTask]
    /\ UNCHANGED <<todoDocs, bugDocs, handled>>

\* The bug calls that are about to insert a document.
Inserting == {t \in Tasks : tasks[t].pc = "insert" /\ tasks[t].engine = "bug"}

\* message, up to the first await: the find_one for the author's list.
BugFind(t, user_id, content) ==
    /\ tasks[t].pc = "idle"
    /\ Len(bugDocs) + Cardinality(Inserting) < MaxDocs
    /\ tasks' = [tasks EXCEPT ![t] =
                    Loaded("bug", user_id, content, find_one(bugDocs, UserQuery(user_id)))]
    /\ UNCHANGED <<todoDocs, bugDocs, handled>>

\* message, the None arm: insert_one(BugList::new()).
BugInsert(t) ==
    /\ tasks[t].pc = "insert"
    /\ tasks[t].engine = "bug"
    /\ bugDocs' = insert_one(bugDocs, BugDoc(EmptyMap))
    /\ tasks' = [tasks EXCEPT ![t].pc = "handle"]
    /\ UNCHANGED <<todoDocs, handled>>

\* message, the rest, back into Bot::message: handle_message on the loaded
\* list; an Err leaves through the ? before update_one and Bot::message is to
\* say the error text; an Ok is followed by update_one and Bot::message is to
\* say the response; a panic ends the call with nothing written and nothing
\* said.
BugUpdate(t) ==
    /\ tasks[t].pc = "handle"
    /\ tasks[t].engine = "bug"
    /\ \E out \in BugOutcomes(tasks[t].list, tasks[t].input, tasks[t].user) :
           /\ bugDocs' = IF out.result.kind = "Ok"
                         THEN update_one(bugDocs, UserQuery(tasks[t].user),
                                         [items |-> out.items])
                         ELSE bugDocs
           /\ tasks' = IF out.result.kind = "Panic"
                       THEN [tasks EXCEPT ![t] = IdleTask]
                       ELSE [tasks EXCEPT
                                ![t].pc = "say",
                                ![t].list = out.items,
                                ![t].ended = out.result.kind,
                                ![t].sent = IF out.result.kind = "Ok"
                                            THEN Some(out.result.text)
                                            ELSE Some(ErrorMessage(out.result.text))]
    /\ UNCHANGED <<todoDocs, handled>>

\* Bot::message, the end: channel_id.say of the response or of the error text;
\* the call is over.
BugSay(t) ==
    /\ tasks[t].pc = "say"
    /\ tasks[t].engine = "bug"
    /\ tasks' = [tasks EXCEPT ![t] = IdleTask]
    /\ UNCHANGED <<todoDocs, bugDocs, handled>>

\* MongoDB collections are empty before first use; no handler call has started.
StoreInit ==
    /\ todoDocs = <<>>
    /\ bugDocs = <<>>
    /\ tasks = [t \in Tasks |-> IdleTask]
    /\ handled = [u \in Users |-> <<>>]

----------------------------------------------------------------------------
(* Initial states, steps and specifications *)

\* TodoList::new / TodoList::default(): no items.
TodoInit ==
    /\ items = EmptyMap
    /\ command = NoCommand
    /\ response = ""
    /\ lines = <<>>
    /\ todoMsg = <<>>

HistInit ==
    /\ addRun = [k \in Keys |-> 0]
    /\ maxSeen = [k \in Keys |-> 0]

Init == TodoInit /\ HistInit /\ BugIdle /\ StoreInit

\* History of the step just taken (command' is the command it handled).
\* addRun[k] counts the Add(k) commands given without a category since k was
\* last absent; any other command on k ends the count (-1) until k is removed.
AddRunAfter(cmd) ==
    [k \in Keys |->
        IF cmd.op = "Print" \/ cmd.key # k THEN addRun[k]
        ELSE IF cmd.op = "Remove" THEN 0
        ELSE IF cmd.op = "Add" /\ cmd.category = None /\ addRun[k] >= 0 THEN addRun[k] + 1
        ELSE -1]

MaxSeenAfter(list) ==
    [k \in Keys |->
        IF k \in DOMAIN list /\ list[k].priority > maxSeen[k]
        THEN list[k].priority
        ELSE maxSeen[k]]

History(track) ==
    /\ addRun' = AddRunAfter(command')
    /\ maxSeen' = IF track THEN MaxSeenAfter(items') ELSE maxSeen
    /\ UNCHANGED todoMsg
    /\ UNCHANGED bugVars
    /\ UNCHANGED storeVars

\* handle_command on one command of the user, naming keys of ks: the match on
\* the TodoCommand.
TodoStep(ks, track) ==
    \/ \E k \in ks, c \in OptCategories : TodoAdd(k, c) /\ History(track)
    \/ \E k \in ks : TodoRemove(k) /\ History(track)
    \/ \E k \in ks : TodoFinish(k) /\ History(track)
    \/ \E c \in OptCategories : TodoPrint(c) /\ History(track)

Next == TodoStep(Keys, FALSE)

Spec == Init /\ [][Next]_vars

\* The same engine over two keys, recording the highest priority seen per key.
HistKeys == {"foo", "bar"}

NextHist == TodoStep(HistKeys, TRUE)

SpecHist == Init /\ [][NextHist]_vars

\* The priorities of the items of a stored list whose display width is looked
\* at: around the powers of ten, and where f32 no longer holds every integer.
WidthPriorities == {0, 9, 10, 99, 100, 16777217, 99999999, 100000001}

\* Lists a user's document can hold when Print is asked for: foo in category Foo
\* and, at most, bar without a category, each Added as often as its priority
\* says (priority 0: entered by Finish alone).
WidthLists ==
    {Put(EmptyMap, "foo", [priority |-> p, done |-> p = 0, category |-> Some("Foo")]) :
         p \in WidthPriorities}
    \cup {Put(Put(EmptyMap, "foo", [priority |-> p, done |-> p = 0, category |-> Some("Foo")]),
               "bar", [priority |-> q, done |-> q = 0, category |-> None]) :
              p \in WidthPriorities, q \in WidthPriorities}

InitWidth ==
    /\ items \in WidthLists
    /\ command = NoCommand
    /\ response = ""
    /\ lines = <<>>
    /\ todoMsg = <<>>
    /\ HistInit
    /\ BugIdle
    /\ StoreInit

NextWidth == TodoStep(HistKeys, FALSE)

SpecWidth == InitWidth /\ [][NextWidth]_vars

\* One !todo message of the user: the command the framework dispatches it to
\* builds the TodoCommand and run_command has handle_command handle it.
TodoMessage(words) ==
    \/ /\ Dispatch(words).op = "Add"
       /\ TodoAdd(Dispatch(words).key, Dispatch(words).category)
       /\ todoMsg' = words
       /\ UNCHANGED <<addRun, maxSeen, bugVars, storeVars>>
    \/ /\ Dispatch(words).op = "Remove"
       /\ TodoRemove(Dispatch(words).key)
       /\ todoMsg' = words
       /\ UNCHANGED <<addRun, maxSeen, bugVars, storeVars>>
    \/ /\ Dispatch(words).op = "Finish"
       /\ TodoFinish(Dispatch(words).key)
       /\ todoMsg' = words
       /\ UNCHANGED <<addRun, maxSeen, bugVars, storeVars>>
    \/ /\ Dispatch(words).op = "Print"
       /\ TodoPrint(Dispatch(words).category)
       /\ todoMsg' = words
       /\ UNCHANGED <<addRun, maxSeen, bugVars, storeVars>>

NextTodoMessage == \E words \in TodoMessages : TodoMessage(words)

SpecTodoMessage == Init /\ [][NextTodoMessage]_vars

\* handle_message on one !bug message of a user: the match on the BugCommand.
handle_message(content, user_id) ==
    \/ BugReport(content, user_id) /\ UNCHANGED <<todoVars, storeVars>>
    \/ BugPrint(content, user_id) /\ UNCHANGED <<todoVars, storeVars>>
    \/ BugPlusOne(content, user_id) /\ UNCHANGED <<todoVars, storeVars>>
    \/ BugPrintAll(content, user_id) /\ UNCHANGED <<todoVars, storeVars>>
    \/ BugHelp(content, user_id) /\ UNCHANGED <<todoVars, storeVars>>

NextBug == \E content \in BugTexts, user_id \in Users : handle_message(content, user_id)

InitBug == TodoInit /\ HistInit /\ BugInit /\ StoreInit

SpecBug == InitBug /\ [][NextBug]_vars

\* The !bug messages sent next to !todo commands: PrintAll, Print of number 1
\* and of a text that is no number, and PlusOne of number 1.
BotBugTexts ==
    {<<>>,
     <<" ", "s", "h", "o", "w", " ", "1">>,
     <<" ", "s", "h", "o", "w", " ", "x">>,
     <<" ", "+", "1", " ", "1">>}

\* The one key of the !todo commands sent next to !bug messages.
BotKeys == {"foo"}

\* Bot::message: a message goes to the TODO engine or to the bug engine; each
\* works on its own list.
NextBot ==
    \/ TodoStep(BotKeys, FALSE)
    \/ \E content \in BotBugTexts, user_id \in Users :
           BugPrint(content, user_id) /\ UNCHANGED <<todoVars, storeVars>>
    \/ \E content \in BotBugTexts, user_id \in Users :
           BugPlusOne(content, user_id) /\ UNCHANGED <<todoVars, storeVars>>
    \/ \E content \in BotBugTexts, user_id \in Users :
           BugPrintAll(content, user_id) /\ UNCHANGED <<todoVars, storeVars>>

SpecBot == InitBug /\ [][NextBot]_vars

\* The run_command calls the host runs, one task per command, interleaved at
\* their awaits: no call holds a lock on the user's document.
NextTodoStore ==
    \/ \E t \in Tasks, u \in Users, cmd \in StoreCommands :
           TodoFind(t, u, cmd) /\ UNCHANGED <<todoVars, bugVars>>
    \/ \E t \in Tasks : TodoInsert(t) /\ UNCHANGED <<todoVars, bugVars>>
    \/ \E t \in Tasks : TodoUpdate(t) /\ UNCHANGED <<todoVars, bugVars>>
    \/ \E t \in Tasks : TodoSay(t) /\ UNCHANGED <<todoVars, bugVars>>

SpecTodoStore == Init /\ [][NextTodoStore]_vars

\* The Bot::message calls the host runs for !bug messages, one task per
\* message, interleaved at their awaits.
NextBugStore ==
    \/ \E t \in Tasks, u \in Users, content \in StoreBugTexts :
           BugFind(t, u, content) /\ UNCHANGED <<todoVars, bugVars>>
    \/ \E t \in Tasks : BugInsert(t) /\ UNCHANGED <<todoVars, bugVars>>
    \/ \E t \in Tasks : BugUpdate(t) /\ UNCHANGED <<todoVars, bugVars>>
    \/ \E t \in Tasks : BugSay(t) /\ UNCHANGED <<todoVars, bugVars>>

SpecBugStore == Init /\ [][NextBugStore]_vars


----------------------------------------------------------------------------
(* Properties of the TODO engine *)

\* The items of the list a Print with this category displays.
ShownBy(cat) == {k \in DOMAIN items : cat = None \/ items[k].category = cat}

LineKeys == {lines[i].key : i \in 1..Len(lines)}

\* C1: starting from a list without key k, after n >= 1 Add(k) commands, with
\* commands on other keys interleaved, the stored priority of k is exactly n;
\* the first Add(k) answers 'Added item "k" to your list' and the i-th (i >= 2)
\* answers 'Updated item "k", priority is i'.
C1_AddCountsAdds ==
    \A k \in Keys :
        addRun[k] >= 1 =>
            /\ k \in DOMAIN items
            /\ items[k].priority = addRun[k]
            /\ command = [op |-> "Add", key |-> k, category |-> None] =>
                   response = IF addRun[k] = 1
                              THEN "Added item \"" \o k \o "\" to your list"
                              ELSE "Updated item \"" \o k \o "\", priority is "
                                       \o ToString(addRun[k])

\* C1 witness: the second Add of a key has just been answered, and a command on
\* another key came in between (that key is in the list).
C1_Witness ==
    \E k \in Keys :
        /\ addRun[k] = 2
        /\ command = [op |-> "Add", key |-> k, category |-> None]
        /\ \E j \in (DOMAIN items) \ {k} : items[j].done

\* C2 as stated: the priority recorded for a key is never lower than a priority
\* recorded for that key in an earlier state, over Add, Remove, Finish and Print.
C2_NeverLowerThanEarlier ==
    \A k \in DOMAIN items : items[k].priority >= maxSeen[k]

\* C2 amended: while a key stays in the list its priority never decreases: no
\* command lowers the priority of a key that is in the list before and after it.
C2_NeverLowerWhileListed ==
    [][\A k \in (DOMAIN items) \cap (DOMAIN items') :
            items'[k].priority >= items[k].priority]_vars

\* C2 witness: a key listed with priority 2 (raised twice without leaving the
\* list) has just been marked done, beside another listed key.
C2_Witness ==
    /\ command.op = "Finish"
    /\ items[command.key].priority = 2
    /\ Cardinality(DOMAIN items) >= 2

\* C3: Remove(k) answers 'Removed "k" from your list' whether or not k was
\* listed, leaves k absent, leaves every entry with another key as it was, and
\* a second Remove(k) changes nothing more.
C3_RemoveIdempotentLocal ==
    [][command'.op = "Remove" =>
          LET k == command'.key
          IN  /\ response' = "Removed \"" \o k \o "\" from your list"
              /\ k \notin DOMAIN items'
              /\ (DOMAIN items') = (DOMAIN items) \ {k}
              /\ \A j \in DOMAIN items' : items'[j] = items[j]
              /\ (command = command' => items' = items)]_vars

\* C3 witness: a Remove has been answered and two other entries, one of them
\* with a raised priority, are still listed.
C3_Witness ==
    /\ command.op = "Remove"
    /\ command.key \notin DOMAIN items
    /\ Cardinality(DOMAIN items) = 2
    /\ \E j \in DOMAIN items : items[j].priority = 2

\* C4: when the displayed items have pairwise distinct priorities, Print emits
\* exactly one line per displayed item, in strictly descending priority order.
C4_PrintDescending ==
    command.op = "Print" =>
        LET shown == ShownBy(command.category)
        IN  (\A a, b \in shown : a # b => items[a].priority # items[b].priority) =>
                /\ Len(lines) = Cardinality(shown)
                /\ LineKeys = shown
                /\ \A i \in 1..Len(lines) : lines[i].priority = items[lines[i].key].priority
                /\ \A i, j \in 1..Len(lines) :
                       i < j => lines[i].priority > lines[j].priority

\* C4 witness: a Print of three items with three different priorities.
C4_Witness ==
    /\ command.op = "Print"
    /\ Len(lines) = 3
    /\ lines[1].priority > lines[2].priority
    /\ lines[2].priority > lines[3].priority

\* C5: Print with category c lists exactly the items whose stored category is
\* c (exact match; an item without category is listed under no c), and Print
\* without a category lists every item.
C5_CategoryFilter ==
    command.op = "Print" =>
        /\ Len(lines) = Cardinality(LineKeys)
        /\ LineKeys = IF command.category = None
                      THEN DOMAIN items
                      ELSE {k \in DOMAIN items :
                               /\ items[k].category # None
                               /\ items[k].category[1] = command.category[1]}

\* C5 witness: a Print of category Foo over a list holding an item of category
\* Foo, one of category foo and one without category.
C5_Witness ==
    /\ command = [op |-> "Print", category |-> Some("Foo")]
    /\ Len(lines) = 1
    /\ \E a, b \in DOMAIN items :
           /\ items[a].category = Some("foo")
           /\ items[b].category = None

\* C6: Finish(k) on a listed item k sets done = true and changes nothing else:
\* the priority and category of k and every other entry are unchanged, and the
\* answer is 'Marked "k" as done'; a following Print that displays k shows it
\* with the X marker at its unchanged priority.
C6_FinishFrame ==
    [][/\ command'.op = "Finish" =>
              LET k == command'.key
              IN  /\ response' = "Marked \"" \o k \o "\" as done"
                  /\ (DOMAIN items') = (DOMAIN items) \cup {k}
                  /\ items'[k].done
                  /\ \A j \in (DOMAIN items) \ {k} : items'[j] = items[j]
                  /\ k \in DOMAIN items =>
                         /\ items'[k].priority = items[k].priority
                         /\ items'[k].category = items[k].category
       /\ (command.op = "Finish" /\ command'.op = "Print") =>
              LET k == command.key
              IN  (command'.category = None \/ items[k].category = command'.category) =>
                      /\ Cardinality({i \in 1..Len(lines') : lines'[i].key = k}) = 1
                      /\ \A i \in 1..Len(lines') :
                             lines'[i].key = k =>
                                 /\ lines'[i].check_mark = "X"
                                 /\ lines'[i].priority = items[k].priority]_vars

\* C6 witness: a Print shows a done item with priority 2 above an item that is
\* not done.
C6_Witness ==
    /\ command.op = "Print"
    /\ Len(lines) >= 2
    /\ lines[1].check_mark = "X"
    /\ lines[1].priority = 2
    /\ lines[2].check_mark = " "


----------------------------------------------------------------------------
(* Properties of the bug engine *)

\* Report messages whose text is three well-formed fields, with the fields.
WellFormedReports ==
    {[content |-> <<" ", "r", "e", "p", "o", "r", "t", " ", "a", " ", "b", " ", "c">>,
      name |-> "a", summary |-> "b", details |-> "c"],
     [content |-> <<" ", "a", "d", "d", " ", "\"", "\"", "\"", "N", "\"", "\"", "\"", " ",
                    "\"", "S", "\"", " ", "D">>,
      name |-> "N", summary |-> "S", details |-> "D"]}

\* Print and PlusOne messages with a valid bug number: the number and the text
\* that follows the command word.
NumberTexts ==
    {[content |-> <<" ", "s", "h", "o", "w", " ", "1">>, op |-> "Print", number |-> 1, rest |-> "1"],
     [content |-> <<" ", "p", "r", "i", "n", "t", " ", "2">>, op |-> "Print", number |-> 2, rest |-> "2"],
     [content |-> <<" ", "d", "i", "s", "p", "l", "a", "y", " ", "9">>, op |-> "Print", number |-> 9, rest |-> "9"],
     [content |-> <<" ", "+", "1", " ", "1">>, op |-> "PlusOne", number |-> 1, rest |-> "1"],
     [content |-> <<" ", "+", "1", " ", " ", "2">>, op |-> "PlusOne", number |-> 2, rest |-> " 2"],
     [content |-> <<" ", "+", "1", " ", "9">>, op |-> "PlusOne", number |-> 9, rest |-> "9"]}

\* C7: a Report whose text is three well-formed fields, applied to a list of n
\* bugs, inserts one new bug with number n + 1, the given name, summary and
\* details, reporter = caller, status Open and empty plus_ones, and answers
\* 'Added bug #<n+1> "<name>" to the list'.
C7_ReportAddsBug ==
    [][\A r \in WellFormedReports :
           bugMsg'.content = r.content =>
               LET n == Cardinality(DOMAIN bugs)
               IN  /\ (DOMAIN bugs') = (DOMAIN bugs) \cup {n + 1}
                   /\ \A i \in DOMAIN bugs : bugs'[i] = bugs[i]
                   /\ bugs'[n + 1] =
                          [number |-> n + 1, priority |-> 0, status |-> "Open",
                           labels |-> <<>>, name |-> r.name, summary |-> r.summary,
                           details |-> r.details, reporter |-> bugMsg'.author,
                           plus_ones |-> <<>>]
                   /\ bugResult' = [kind |-> "Ok",
                                    text |-> "Added bug #" \o ToString(n + 1) \o " \""
                                                 \o r.name \o "\" to the list"]]_vars

\* The keys of the list are exactly 1..n, every bug is numbered by its key, and
\* no two bugs share a number.
WellNumbered ==
    /\ (DOMAIN bugs) = 1..Cardinality(DOMAIN bugs)
    /\ \A i \in DOMAIN bugs : bugs[i].number = i
    /\ \A i, j \in DOMAIN bugs : i # j => bugs[i].number # bugs[j].number

\* C8: in every state reached by bug commands the keys are exactly 1..n, each
\* bug's number equals its key, no two bugs share a number, and no command
\* changes the number of a bug of the list.
C8_NumbersStableUnique ==
    /\ []WellNumbered
    /\ [][\A i \in (DOMAIN bugs) \cap (DOMAIN bugs') :
              bugs'[i].number = bugs[i].number]_vars

\* C8 witness: a list of two bugs after two PlusOne commands were applied to it.
C8_Witness ==
    /\ Cardinality(DOMAIN bugs) = 2
    /\ bugResult.kind = "Ok"
    /\ \E i \in DOMAIN bugs : Len(bugs[i].plus_ones) = 2

\* C9: PlusOne on a bug N of the list appends the caller's id to that bug's
\* plus_ones exactly once, also when the caller is already in it or is the
\* reporter, changes no other field and no other bug, and the count in the
\* answer is the length of plus_ones after the append minus 1.
C9_PlusOneAppends ==
    [][\A t \in NumberTexts :
           (t.op = "PlusOne" /\ bugMsg'.content = t.content /\ t.number \in DOMAIN bugs) =>
               /\ (DOMAIN bugs') = DOMAIN bugs
               /\ \A i \in (DOMAIN bugs) \ {t.number} : bugs'[i] = bugs[i]
               /\ bugs'[t.number] =
                      [bugs[t.number] EXCEPT
                          !.plus_ones = Append(bugs[t.number].plus_ones, bugMsg'.author)]
               /\ bugResult' =
                      [kind |-> "Ok",
                       text |-> "I'm sorry to hear that you're also experiencing this issue.\nAt least you've got "
                                    \o ToString(Len(bugs'[t.number].plus_ones) - 1)
                                    \o " other(s) for company."]]_vars

\* C9 witness: the reporter of bug 1 has given it a second plus-one.
C9_Witness ==
    /\ bugMsg = [content |-> <<" ", "+", "1", " ", "1">>, author |-> 101]
    /\ 1 \in DOMAIN bugs
    /\ bugs[1].reporter = 101
    /\ bugs[1].plus_ones = <<101, 101>>

\* C10: PlusOne and Print of a valid bug number that is not in the list answer
\* with the not-found message, not with an error, and leave the list unchanged.
C10_NotFoundIsAnAnswer ==
    [][\A t \in NumberTexts :
           (bugMsg'.content = t.content /\ t.number \notin DOMAIN bugs) =>
               /\ bugResult' = [kind |-> "Ok",
                                text |-> "I couldn't find a bug with the number " \o t.rest
                                             \o " in the global list."]
               /\ bugs' = bugs]_vars

\* C10 witness: a PlusOne of number 9 was answered on a list that holds bugs,
\* one of them with a plus-one.
C10_Witness ==
    /\ bugMsg.content = <<" ", "+", "1", " ", "9">>
    /\ bugResult.kind = "Ok"
    /\ \E i \in DOMAIN bugs : Len(bugs[i].plus_ones) = 1

\* Messages whose first word is no command word and is followed by more text.
UnknownCommandTexts ==
    {<<" ", "f", "o", "o", " ", "b", "a", "r", " ", "b", "a", "z">>,
     <<" ", "r", "e", "m", "o", "v", "e", " ", "1">>,
     <<" ", "d", "e", "l", "e", "t", "e", " ", "2">>}

\* C11: for a command body whose first word is no known command word,
\* handle_message returns a response to the caller (it does not panic or fail)
\* and the list is unchanged.
C11_UnknownDegradesToHelp ==
    [][bugMsg'.content \in UnknownCommandTexts =>
           /\ bugResult'.kind = "Ok"
           /\ bugs' = bugs]_vars

----------------------------------------------------------------------------
(* Properties of the handlers around the store *)

\* !bug messages whose argument does not parse, with the error handle_message
\* returns: a Print and a PlusOne of a text that is no number, and a Report
\* the grammar rejects.
ParseFailures ==
    {[content |-> <<" ", "s", "h", "o", "w", " ", "x">>,
      error |-> "couldn't parse bug number from user input \"x\""],
     [content |-> <<" ", "+", "1", " ", "x">>,
      error |-> "couldn't parse bug number from user input \"x\""],
     [content |-> <<" ", "r", "e", "p", "o", "r", "t", " ", "a", " ", "b">>,
      error |-> "couldn't parse a user-submitted bug report"]}

\* C12: when the argument of a bug command does not parse, handle_message
\* returns an error value (no panic), the list in memory is the list before the
\* call, the call writes nothing to the store, and the host sends the user an
\* error message.
C12_FailureAtomicity ==
    [][\A t \in Tasks, f \in ParseFailures :
           (tasks[t].engine = "bug" /\ tasks[t].input = f.content /\ tasks'[t] # tasks[t]) =>
               /\ bugDocs' = bugDocs
               /\ tasks[t].pc = "handle" =>
                      /\ tasks'[t].pc = "say"
                      /\ tasks'[t].ended = "Err"
                      /\ tasks'[t].list = tasks[t].list
                      /\ tasks'[t].sent = Some("Error occurred:\n'''\n" \o f.error \o "\n'''")]_vars

----------------------------------------------------------------------------
(* Properties of the bug report tokenizer, as handle_message uses it *)

\* Report messages with two fields and with a trailing fourth field.
WrongArityReports ==
    {<<" ", "r", "e", "p", "o", "r", "t", " ", "a", " ", "b">>,
     <<" ", "r", "e", "p", "o", "r", "t", " ", "\"", "a", "\"", " ", "\"", "b", "\"">>,
     <<" ", "r", "e", "p", "o", "r", "t", " ", "a", " ", "b", " ", "c", " ", "d">>}

\* C13: a Report text of two fields and a Report text with a trailing fourth
\* field are both rejected with the parse error, and no bug is added.
C13_StrictArity ==
    [][bugMsg'.content \in WrongArityReports =>
           /\ bugResult' = [kind |-> "Err",
                            text |-> "couldn't parse a user-submitted bug report"]
           /\ bugs' = bugs]_vars

\* Report messages with a field whose opening quote is never closed.
UnterminatedReports ==
    {<<" ", "r", "e", "p", "o", "r", "t", " ", "\"", "a", " ", "b", " ", "c">>}

\* C14: a Report text in which a field opens with a quote that is never closed
\* is rejected with the parse error; the opening quote is never read as part
\* of a bare word.
C14_UnterminatedRejected ==
    [][bugMsg'.content \in UnterminatedReports =>
           /\ bugResult' = [kind |-> "Err",
                            text |-> "couldn't parse a user-submitted bug report"]
           /\ bugs' = bugs]_vars

\* Report messages that write the fields a, b and c bare, double-quoted and
\* triple-quoted.
QuotingVariants ==
    {<<" ", "r", "e", "p", "o", "r", "t", " ", "a", " ", "b", " ", "c">>,
     <<" ", "r", "e", "p", "o", "r", "t", " ", "\"", "a", "\"", " ", "\"", "b", "\"", " ", "\"", "c", "\"">>,
     <<" ", "r", "e", "p", "o", "r", "t", " ", "\"", "\"", "\"", "a", "\"", "\"", "\"", " ", "\"", "b", "\"", " ", "c">>}

\* C15: writing each of the three fields bare, double-quoted or triple-quoted
\* yields the same three extracted values, the quote markers stripped: each of
\* the variants of a, b, c gives a bug with name a, summary b and details c.
C15_QuotingEquivalence ==
    [][bugMsg'.content \in QuotingVariants =>
           \E n \in (DOMAIN bugs') \ (DOMAIN bugs) :
               /\ bugs'[n].name = "a"
               /\ bugs'[n].summary = "b"
               /\ bugs'[n].details = "c"]_vars

\* The Print command words given without a bug number.
BareShowTexts ==
    {<<" ", "s", "h", "o", "w">>,
     <<" ", "p", "r", "i", "n", "t">>,
     <<" ", "d", "i", "s", "p", "l", "a", "y">>}

\* C16: show, print and display given without a bug number print the bug
\* list: the response is one the bare !bug command gives for the same list, and
\* the list is not modified.
C16_BareShowPrintsList ==
    [][bugMsg'.content \in BareShowTexts =>
           /\ \E order \in IterOrders(bugs) :
                  bugResult' = [kind |-> "Ok",
                                text |-> PrintAllText(bugs, UnclosedBugs(bugs, order))]
           /\ bugs' = bugs]_vars

----------------------------------------------------------------------------
(* Properties of the bug list as a whole *)

\* Bodies that are empty after the trim.
EmptyBodies == {<<>>, <<" ", " ", " ">>}

\* The text of the entries of the bugs with these numbers, one after the other.
RECURSIVE EntriesText(_, _)
EntriesText(list, numbers) ==
    IF numbers = <<>> THEN ""
    ELSE "#" \o ToString(Head(numbers)) \o " " \o list[Head(numbers)].name
             \o "\t" \o list[Head(numbers)].summary
             \o "\t(" \o ToString(Len(list[Head(numbers)].plus_ones)) \o " +1s)\t[]"
             \o EntriesText(list, Tail(numbers))

\* C17: a body that is empty or only whitespace is handled as PrintAll: the
\* response holds exactly one entry for every bug whose status is not Closed
\* and no entry for any other bug.
C17_EmptyBodyListsUnclosed ==
    [][bugMsg'.content \in EmptyBodies =>
           /\ \A n \in DOMAIN bugs :
                  Cardinality({i \in 1..Len(listed') : listed'[i] = n})
                      = IF bugs[n].status # "Closed" THEN 1 ELSE 0
           /\ \A i \in 1..Len(listed') : listed'[i] \in DOMAIN bugs
           /\ bugResult' = [kind |-> "Ok", text |-> EntriesText(bugs, listed')]
           /\ bugs' = bugs]_vars

\* C17 witness: a whitespace-only body was answered with the one open bug of a
\* list that also holds a closed bug; a plus-one was given before.
C17_Witness ==
    /\ bugMsg.content = <<" ", " ", " ">>
    /\ Len(listed) = 1
    /\ bugResult.kind = "Ok"
    /\ \E n \in DOMAIN bugs : bugs[n].status = "Closed"
    /\ \E n \in DOMAIN bugs : Len(bugs[n].plus_ones) = 1

\* Messages that ask for the removal of a bug.
RemoveTexts ==
    {<<" ", "r", "e", "m", "o", "v", "e", " ", "1">>,
     <<" ", "r", "m", " ", "1">>,
     <<" ", "d", "e", "l", "e", "t", "e", " ", "2">>}

----------------------------------------------------------------------------
(* Properties of the handlers of TODO commands around the store *)

\* The calls of a user that have started and not ended.
InFlight(u) == {t \in Tasks : tasks[t].pc # "idle" /\ tasks[t].user = u}

\* The list handle_command leaves after the commands, one after the other.
RECURSIVE ApplyAll(_, _)
ApplyAll(list, cmds) ==
    IF cmds = <<>> THEN list
    ELSE ApplyAll((CHOOSE out \in TodoOutcomes(list, Head(cmds)) : TRUE).items, Tail(cmds))

\* The orders in which n commands can be put.
Orders(n) == {p \in [1..n -> 1..n] : \A i, j \in 1..n : p[i] = p[j] => i = j}

\* The lists the commands give from the empty list, in some serial order.
SerialLists(cmds) ==
    {ApplyAll(EmptyMap, [i \in 1..Len(cmds) |-> cmds[p[i]]]) : p \in Orders(Len(cmds))}

\* C19: no update of a user is lost: once the commands of a user are handled and
\* none is in flight, the stored list of the user is the list the handled
\* commands give in some serial order.
C19_NoLostUpdates ==
    \A u \in Users :
        (handled[u] # <<>> /\ InFlight(u) = {}) =>
            /\ find_one(todoDocs, UserQuery(u)) # None
            /\ find_one(todoDocs, UserQuery(u))[1].items \in SerialLists(handled[u])

----------------------------------------------------------------------------
(* Properties of the documents in the store *)

\* C20: find-or-create keeps one record per user: whenever a command of a user
\* has been handled, the store holds exactly one list document for that user,
\* addressed by the user's id.
C20_OneDocumentPerUser ==
    [][\A t \in Tasks :
           (tasks[t].engine = "bug" /\ tasks[t].pc \in {"handle", "say"}
                /\ tasks'[t].pc = "idle") =>
               Cardinality(Matching(bugDocs', UserQuery(tasks[t].user))) = 1]_vars

----------------------------------------------------------------------------
(* Properties of the bug list across messages *)

\* C21: bug state persists between commands: when a command of a user ends with
\* success, the list it ended with is written back, that is, the next find_one
\* for that user yields a stored document and its items are that list.
C21_BugStatePersists ==
    [][\A t \in Tasks :
           (tasks[t].engine = "bug" /\ tasks[t].pc = "handle"
                /\ tasks'[t].pc = "say" /\ tasks'[t].ended = "Ok") =>
               /\ find_one(bugDocs', UserQuery(tasks[t].user)) # None
               /\ find_one(bugDocs', UserQuery(tasks[t].user))[1].items = tasks'[t].list]_vars

----------------------------------------------------------------------------
(* Properties of the TODO display across iteration orders *)

\* The keys Print shows for a category.
ShownKeys(cat) == {k \in DOMAIN items : Displayed(items, cat, k)}

\* No two of the keys Print shows for a category have the same priority.
DistinctPriorities(cat) ==
    \A j, k \in ShownKeys(cat) : items[j].priority = items[k].priority => j = k

\* The response texts Print can give for a category, over the iteration orders.
PrintResponses(cat) == {PrintResponse(items, cat, o) : o \in IterOrders(items)}

\* The sets of lines Print can give for a category, over the iteration orders.
PrintLineSets(cat) ==
    {{PrintLines(items, cat, o)[i] : i \in 1..Len(PrintLines(items, cat, o))} :
         o \in IterOrders(items)}

\* C22 as stated: Print gives the same response text for every order in which
\* the entries of the list are iterated, also when several items share a
\* priority.
C22_PrintIgnoresOrder ==
    \A cat \in OptCategories : Cardinality(PrintResponses(cat)) = 1

\* C22 as the code has it: Print gives the same response text for every order
\* of iteration when the items it shows have pairwise distinct priorities; when
\* items share a priority every order still shows the same lines, and only the
\* place of equal-priority lines among themselves follows the iteration.
C22_PrintIgnoresOrderOfDistinct ==
    \A cat \in OptCategories :
        /\ DistinctPriorities(cat) => Cardinality(PrintResponses(cat)) = 1
        /\ Cardinality(PrintLineSets(cat)) = 1

\* A Print of three items of which two share a priority has answered with the
\* lines of one iteration order, and the filter of its category shows two
\* items of distinct priorities.
C22_Witness ==
    /\ command.op = "Print"
    /\ Cardinality(DOMAIN items) = 3
    /\ Len(lines) >= 2
    /\ \E j, k \in DOMAIN items : j # k /\ items[j].priority = items[k].priority
    /\ \E cat \in OptCategories : Cardinality(ShownKeys(cat)) >= 2 /\ DistinctPriorities(cat)
    /\ \E o \in IterOrders(items) : response = PrintResponse(items, command.category, o)

----------------------------------------------------------------------------
(* Properties of the !todo commands *)

\* The words of the module documentation for removing an item.
RemoveWords == {"remove", "rm", "delete"}

\* C23: each of "!todo remove KEY", "!todo rm KEY" and "!todo delete KEY" is
\* handled as Remove(KEY): KEY is deleted from the list, the answer is
\* Removed "KEY" from your list, and no item is added.
C23_RemoveSynonyms ==
    [][\A w \in RemoveWords :
           todoMsg' = <<w, "foo">> =>
               /\ command' = [op |-> "Remove", key |-> "foo"]
               /\ items' = Del(items, "foo")
               /\ response' = "Removed \"foo\" from your list"
               /\ DOMAIN items' \subseteq DOMAIN items]_vars

----------------------------------------------------------------------------
(* Properties of the priority column of the TODO display *)

\* The number of decimal digits of n.
RECURSIVE DecimalDigits(_)
DecimalDigits(n) == IF n < 10 THEN 1 ELSE 1 + DecimalDigits(n \div 10)

\* The lines of a Print as text, the priority right-aligned in a column of the
\* width.
ColumnText(width) == RenderLines(lines, width)

\* The text of the last response between its first line and the closing fence.
ResponseBody ==
    LET head == IF command.category # None
                THEN "TODO list for " \o UserName \o " in category ["
                         \o command.category[1] \o "]:\n" \o Fence
                ELSE "TODO list for " \o UserName \o ":\n" \o Fence
    IN  [head |-> head, rest |-> ColumnText(DecimalDigits(MaxPriorityOf(items))) \o Fence]

\* C24: after a Print, with or without a filter, every line of the response has
\* its priority right-aligned in a column as wide as the decimal digits of the
\* largest priority over all items of the list, hidden ones included.
C24_WidthIsDigitsOfMax ==
    command.op = "Print" => response = ResponseBody.head \o ResponseBody.rest

----------------------------------------------------------------------------
(* Properties of Add and the categories *)

\* The category of a key before a command: none for a key not in the list.
CategoryOf(list, k) == IF k \in DOMAIN list THEN list[k].category ELSE None

\* The label of an item in the responses of Add.
Label(k, category) ==
    IF category # None THEN "[" \o category[1] \o "] \"" \o k \o "\"" ELSE "\"" \o k \o "\""

\* C25: Add(k, Some(c)) sets the category of k to c, whatever it was; Add(k,
\* None) leaves the category of k as it was; the response names the item as
\* [category] "k" when it has a category after the call and as "k" when not.
C25_AddAndCategories ==
    [][command'.op = "Add" =>
           LET k == command'.key
               c == command'.category
           IN  /\ k \in DOMAIN items'
               /\ items'[k].category = IF c # None THEN c ELSE CategoryOf(items, k)
               /\ response' \in
                      {"Added item " \o Label(k, items'[k].category) \o " to your list",
                       "Updated item " \o Label(k, items'[k].category)
                           \o ", priority is " \o ToString(items'[k].priority)}]_vars

\* An Add without a category has answered for an item that kept its category
\* Foo, and another item of the list changed its category from Foo to foo.
C25_Witness ==
    /\ command = [op |-> "Add", key |-> "foo", category |-> None]
    /\ items["foo"].category = Some("Foo")
    /\ response = "Updated item [Foo] \"foo\", priority is 2"
    /\ "bar" \in DOMAIN items
    /\ items["bar"].category = Some("foo")
    /\ items["bar"].priority = 2

----------------------------------------------------------------------------
(* Properties of the queries of both engines *)

\* The !bug messages that are queries: Print of a number and PrintAll.
IsBugQuery(content) == Classify(content).command \in {"Print", "PrintAll"}

\* The elements of a sequence.
Range(s) == {s[i] : i \in 1..Len(s)}

\* C26: queries are read-only: a TODO Print (with or without category), a bug
\* Print(number) and a bug PrintAll leave the list they read exactly as it was,
\* and the same query asked again with no command in between shows the same
\* set of entries.
C26_QueriesReadOnly ==
    [][/\ command'.op = "Print" => items' = items
       /\ IsBugQuery(bugMsg'.content) => bugs' = bugs
       /\ (command.op = "Print" /\ command' = command) => Range(lines') = Range(lines)
       /\ (IsBugQuery(bugMsg.content) /\ bugMsg'.content = bugMsg.content
               /\ bugResult.kind # "None") =>
              /\ Range(listed') = Range(listed)
              /\ Classify(bugMsg.content).command = "Print" =>
                     bugResult'.text = bugResult.text]_vars

\* A TODO Print has shown an item marked done, and a bug PrintAll has listed
\* an open bug that has a plus-one.
C26_Witness ==
    /\ command.op = "Print"
    /\ Len(lines) = 1
    /\ lines[1].check_mark = "X"
    /\ Classify(bugMsg.content).command = "PrintAll"
    /\ bugResult.kind = "Ok"
    /\ \E i \in 1..Len(listed) : bugs[listed[i]].plus_ones # <<>>

----------------------------------------------------------------------------
(* Properties of Finish on keys that are not in the list *)

\* The item Finish enters for a key that is not in the list.
FinishedUnlisted == [priority |-> 0, done |-> TRUE, category |-> None]

\* C27: Finish(k) on a key that is not in the list enters an item for k with
\* priority 0, done and without category; a Print without filter shows it, at
\* priority 0 with the X marker; the Add(k) that follows the Finish raises the
\* priority to 1, keeps it done and answers with the text of a fresh add.
C27_FinishEntersUnlisted ==
    [][/\ (command'.op = "Finish" /\ command'.key \notin DOMAIN items) =>
              items' = Put(items, command'.key, FinishedUnlisted)
       /\ (command'.op = "Print" /\ command'.category = None) =>
              \A k \in DOMAIN items :
                  items[k] = FinishedUnlisted =>
                      \E i \in 1..Len(lines') :
                          /\ lines'[i].key = k
                          /\ lines'[i].priority = 0
                          /\ lines'[i].check_mark = "X"
       /\ (command.op = "Finish" /\ command'.op = "Add" /\ command'.key = command.key
               /\ items[command.key] = FinishedUnlisted) =>
              /\ items'[command.key].priority = 1
              /\ items'[command.key].done
              /\ response' = "Added item " \o Label(command.key, command'.category)
                                 \o " to your list"]_vars

\* An Add has answered with the text of a fresh add for an item that is done:
\* the key was entered by Finish before.
C27_Witness ==
    /\ command = [op |-> "Add", key |-> "foo", category |-> None]
    /\ response = "Added item \"foo\" to your list"
    /\ items["foo"] = [priority |-> 1, done |-> TRUE, category |-> None]

----------------------------------------------------------------------------
(* Properties of the done flag *)

\* C28: the done flag of an item is cleared by nothing but the removal of the
\* item: Finish(k) leaves k done; an item that is done stays in the list and
\* done through every Add, Finish and Print, of its key or another; it leaves
\* the list only by Remove of its key, and a key enters the list not done only
\* by an Add of that key.
C28_DoneUntilRemoved ==
    [][/\ command'.op = "Finish" => items'[command'.key].done
       /\ \A k \in DOMAIN items :
              items[k].done =>
                  IF command' = [op |-> "Remove", key |-> k]
                  THEN k \notin DOMAIN items'
                  ELSE k \in DOMAIN items' /\ items'[k].done
       /\ \A k \in (DOMAIN items') \ (DOMAIN items) :
              ~items'[k].done => (command'.op = "Add" /\ command'.key = k)]_vars

\* An item is done at priority 2 in a category and the command handled last is
\* the Add that brought it there: the Add came after the Finish and the item is
\* still done; another item of the list is not done.
C28_Witness ==
    /\ command = [op |-> "Add", key |-> "bar", category |-> Some("Foo")]
    /\ response = "Updated item [Foo] \"bar\", priority is 2"
    /\ items["bar"] = [priority |-> 2, done |-> TRUE, category |-> Some("Foo")]
    /\ "foo" \in DOMAIN items
    /\ ~items["foo"].done

============================================================================
